---- MODULE Spec2Model ----
(***************************************************************************)
(* A model of HLSconverter.py: the batch thread (convert_all_videos_       *)
(* parallel), the conversion jobs run by the thread pool                   *)
(* (convert_single_video), the external ffmpeg processes, the shared       *)
(* progress total, the registry RUNNING_PROCS, the shutdown path          *)
(* (on_close, _kill_process_tree) and the encoder detection run while the  *)
(* module loads (detect_gpu_encoder, gpu_type_to_string).                  *)
(*                                                                         *)
(* Times are whole seconds.  A process handle is identified with the item  *)
(* whose job spawned it.  The duration probe of one file gives the same    *)
(* answer each time it is asked during a batch.                            *)
(***************************************************************************)
EXTENDS Integers, Sequences, FiniteSets, TLC

\* ---------------------------------------------------------------- bounds
\* items of the batch
NumItems == 3
\* largest duration a probe answers
MaxDur == 1
\* largest number of seconds a progress line carries
MaxSample == 2
\* calls of _kill_process_tree on one handle
MaxCalls == 2
\* smallest and largest os.cpu_count()
MinCpus == 1
MaxCpus == 6

\* ------------------------------------------------------ program constants
MicrosPerSecond == 1000000
QualityMin == 16
QualityMax == 28

Items == 1..NumItems
\* what get_video_duration can answer: a negative number, 0 (also its answer
\* on failure), or a positive number of seconds
DurSet == (0 - 1)..MaxDur
\* sys.platform; "darwin" takes the branches of "linux" everywhere but in the
\* choice of the encoder
Platforms == {"win", "darwin", "linux"}
Encoders == {"h264_videotoolbox", "h264_nvenc", "h264_qsv", "h264_amf", "libx264"}
\* the encoders detect_gpu_encoder can return on a platform
EncodersOf(plat) ==
  IF plat = "darwin" THEN {"h264_videotoolbox", "libx264"}
  ELSE IF plat = "win" THEN {"h264_nvenc", "h264_qsv", "h264_amf", "libx264"}
  ELSE {"libx264"}
\* the positions of quality_slider
Qualities == QualityMin..QualityMax

VARIABLES
  platform,                 \* sys.platform, fixed for the process lifetime
  duration,                 \* item -> what get_video_duration answers for it
  encoder,                  \* the module-level encoder
  crf_value,                \* the quality the batch is started with
  feed,                     \* the lines the ffmpeg processes of this run can print
  batch,                    \* position of the batch thread
  nextFuture,               \* index of the future the batch thread waits for
  collected,                \* items whose future.result() returned to the batch thread
  errors,                   \* items a "Failed: ..." box was posted for, in posting order
  doneCount,                \* number of "All conversions completed!" boxes posted
  total_duration_sum,       \* total_duration of the running batch
  processed_duration_total, \* processed_duration_total[0]
  jpc,                      \* item -> position of its job
  success,                  \* item -> second component of the job's return value
  last_reported,            \* item -> the job's local last_reported
  cmd,                      \* the rate-control option of the last command built
  proc,                     \* item -> state of the job's ffmpeg process
  returncode,               \* item -> exit code of the job's process
  RUNNING_PROCS,            \* the registry of live process handles
  SHUTTING_DOWN,            \* the global flag
  closepc,                  \* position of on_close
  procs,                    \* on_close's snapshot, the part not yet signalled
  signalled,                \* on_close's snapshot, the part _kill_process_tree was called on
  regressed,                \* history: some job has read a sample below its last_reported
  removals,                 \* history: item -> times its handle left RUNNING_PROCS
  killCalls,                \* history: item -> calls of _kill_process_tree on its handle
  deadCalls,                \* history: item -> those calls that found the process exited
  killEscaped,              \* history: an exception has left _kill_process_tree
  cpu_count,                \* os.cpu_count(), fixed for the process lifetime
  listing,                  \* what "ffmpeg -encoders" answers: its outcome and the names it lists
  label_encoder,            \* the text gpu_type_to_string returned for gpu_type_label
  detectRuns,               \* history: runs of detect_gpu_encoder
  verified,                 \* history: the encoders whose test encode passed in the last run
  detectEscaped,            \* history: an exception has left detect_gpu_encoder
  held,                     \* item -> the line its job's loop body is working on
  lateSamples,              \* history: item -> samples its job applied with SHUTTING_DOWN set
  progress_label,           \* the percent last posted to progress_bar and progress_label
  bare,                     \* history: the places that touched a shared structure without holding lock
  contributed,              \* history: item -> what its job's updates have added to processed_duration_total[0]
  top_reported              \* history: item -> the largest processed_seconds its job has computed

envVars == <<platform, duration, encoder, crf_value, feed, cpu_count, listing>>
batchVars == <<batch, nextFuture, collected, errors, doneCount>>
progressVars == <<total_duration_sum, processed_duration_total>>
jobVars == <<jpc, success, last_reported, cmd, regressed>>
procVars == <<proc, returncode>>
closeVars == <<SHUTTING_DOWN, closepc, procs>>
callVars == <<killCalls, deadCalls>>
detectVars == <<label_encoder, detectRuns, verified, detectEscaped>>
loopVars == <<held, lateSamples>>
uiVars == <<progress_label, bare>>
ledgerVars == <<contributed, top_reported>>

vars == <<envVars, batchVars, progressVars, jobVars, procVars, closeVars, signalled, callVars,
          RUNNING_PROCS, removals, killEscaped, detectVars, loopVars, uiVars, ledgerVars>>

\* ------------------------------------------------------------- helpers
RECURSIVE SumTo(_, _)
SumTo(f, n) == IF n = 0 THEN 0 ELSE f[n] + SumTo(f, n - 1)

Min(a, b) == IF a <= b THEN a ELSE b
Max(a, b) == IF a >= b THEN a ELSE b

\* MAX_WORKERS = max((os.cpu_count() // 2), 2)
PoolSize(cpus) == Max(cpus \div 2, 2)
MAX_WORKERS == PoolSize(cpu_count)

\* os._exit(0) has run: no thread of the program takes another step
halted == closepc = "exited"

\* a job that a pool worker is executing
Active(j) == jpc[j] \in {"built", "spawned", "reading", "body", "next", "waiting"}
\* a job that has ended: it returned a value, or it raised
Finished(j) == jpc[j] \in {"returned", "raised"}

\* ---------------------------------------------------------------- lines
\* A line of ffmpeg's -progress output: a key and a value.  The value of
\* out_time_ms is a digit string (its number of microseconds, here a whole
\* number of seconds), or something str.isdigit rejects.
Values == {<<"digits", k * MicrosPerSecond>> : k \in 0..MaxSample}
            \cup {<<"N/A", 0>>, <<"empty", 0>>, <<"signed", MicrosPerSecond>>}
Lines == {[key |-> "out_time_ms", value |-> v] : v \in Values}
           \cup {[key |-> "frame", value |-> <<"digits", 0>>]}

\* every value passes
isdigitAlways(value) == TRUE

\* value.isdigit()
isdigit(value) == value[1] = "digits"

\* the lines of a process that reports no processed time
QuietLines == {l \in Lines : ~(l.key = "out_time_ms" /\ isdigit(l.value))}

\* int(value) / 1_000_000
ProcessedSeconds(value) == value[2] \div MicrosPerSecond

\* processed_seconds - last_reported, of either sign
IncrementSigned(processed_seconds, last) == processed_seconds - last

\* max(0, processed_seconds - last_reported)
Increment(processed_seconds, last) == Max(0, processed_seconds - last)

\* min(total_duration_sum, processed_duration_total[0] + increment)
Aggregate(total, processed, increment) == Min(total, processed + increment)

\* ------------------------------------------------------------------ lock
\* the places that touch processed_duration_total or RUNNING_PROCS, the
\* structure each touches, and the ones that sit inside "with lock:"
Structure(site) == IF site \in {"reset", "update"} THEN "aggregate" ELSE "registry"
WithLock == {"update"}
\* the places that have run without lock once the code at site has run
Access(touched, site) ==
  IF site \in WithLock THEN touched ELSE touched \cup {site}

\* ------------------------------------------------------- rate control
\* a steeper map without its clamp
QVSteep(crf) == 66 - 6 * (crf - 16)

\* max(1, min(100, 66 - 2 * (int(crf_value) - 16)))
QV(crf) == Max(1, Min(100, 66 - 2 * (crf - 16)))
\* max(0, min(51, int(crf_value) + 2))
CQ(crf) == Max(0, Min(51, crf + 2))
\* max(1, min(51, int(crf_value) + 2))
ICQ(crf) == Max(1, Min(51, crf + 2))
\* max(0, min(51, int(crf_value) + 2))
QP(crf) == Max(0, Min(51, crf + 2))

\* the rate-control option the command gets for an encoder, and its value
\* (h264_amf gets -qp_i, -qp_p and -qp_b, all three with the one value)
RateControl(enc, crf) ==
  IF enc = "h264_videotoolbox" THEN [opt |-> "-q:v", val |-> QV(crf)]
  ELSE IF enc = "h264_nvenc" THEN [opt |-> "-cq", val |-> CQ(crf)]
  ELSE IF enc = "h264_qsv" THEN [opt |-> "-global_quality", val |-> ICQ(crf)]
  ELSE IF enc = "h264_amf" THEN [opt |-> "-qp", val |-> QP(crf)]
  ELSE [opt |-> "-crf", val |-> crf]

NoCommand == [opt |-> "", val |-> 0]

\* no line is being worked on
NoLine == [key |-> "", value |-> <<"empty", 0>>]

\* ------------------------------------------------------------- detection
HardwareEncoders == Encoders \ {"libx264"}

\* "Candidate order by platform"
Preference(plat) ==
  IF plat = "darwin" THEN <<"h264_videotoolbox">>
  ELSE IF plat = "win" THEN <<"h264_nvenc", "h264_qsv", "h264_amf">>
  ELSE <<>>

\* what "ffmpeg -encoders" can answer: the names it lists, a non-zero
\* return code, or an exception of subprocess.run
Listings ==
  {[status |-> "ok", names |-> n] : n \in SUBSET HardwareEncoders}
    \cup {[status |-> st, names |-> {}] : st \in {"failed", "raised"}}

\* candidates: the platform's encoders that the listing names, in order
Candidates(plat, names) == SelectSeq(Preference(plat), LAMBDA e : e \in names)

\* the first candidate is returned without its test encode
FirstListed(cands, works) == IF cands = <<>> THEN "libx264" ELSE Head(cands)

\* "for enc in candidates: if _test_h264_encoder(enc): return enc", then the
\* fallback; works: the encoders whose test encode returns 0 in this run (a
\* test that raises counts as failed)
RECURSIVE FirstVerified(_, _)
FirstVerified(cands, works) ==
  IF cands = <<>> THEN "libx264"
  ELSE IF Head(cands) \in works THEN Head(cands)
  ELSE FirstVerified(Tail(cands), works)

\* "except Exception as e: print(...); return fallback" -- whether an
\* exception raised inside goes on to the caller
Surfaces(raised) == FALSE

\* detect_gpu_encoder()
detect_gpu_encoder(plat, lst, works) ==
  IF lst.status # "ok" THEN "libx264"
  ELSE FirstVerified(Candidates(plat, lst.names), works)

\* gpu_type_to_string, from the encoder its own run of detection returned
gpu_type_to_string(gpu) ==
  IF gpu = "h264_videotoolbox" THEN "Apple VideoToolbox"
  ELSE IF gpu = "h264_nvenc" THEN "NVIDIA NVENC"
  ELSE IF gpu = "h264_qsv" THEN "Intel Quick Sync"
  ELSE IF gpu = "h264_amf" THEN "AMD AMF"
  ELSE IF gpu = "libx264" THEN "Software (libx264)"
  ELSE "Unknown GPU Encoder"

\* ----------------------------------------------------------------- Init
\* no batch has been started, the window is open
Idle ==
  /\ batch = "idle"
  /\ nextFuture = 1
  /\ collected = {}
  /\ errors = <<>>
  /\ doneCount = 0
  /\ total_duration_sum = 0
  /\ processed_duration_total = 0
  /\ jpc = [j \in Items |-> "none"]
  /\ success = [j \in Items |-> FALSE]
  /\ last_reported = [j \in Items |-> 0]
  /\ cmd = NoCommand
  /\ proc = [j \in Items |-> "none"]
  /\ returncode = [j \in Items |-> 0]
  /\ RUNNING_PROCS = {}
  /\ SHUTTING_DOWN = FALSE
  /\ closepc = "open"
  /\ procs = {}
  /\ signalled = {}
  /\ regressed = FALSE
  /\ removals = [j \in Items |-> 0]
  /\ killCalls = [j \in Items |-> 0]
  /\ deadCalls = [j \in Items |-> 0]
  /\ killEscaped = FALSE
  /\ held = [j \in Items |-> NoLine]
  /\ lateSamples = [j \in Items |-> 0]
  /\ progress_label = 0
  /\ bare = {}
  /\ contributed = [j \in Items |-> 0]
  /\ top_reported = [j \in Items |-> 0]

\* the state once the module is loaded (both runs of detect_gpu_encoder, at
\* "encoder = ..." and at gpu_type_label, gave the same answer) and files are
\* selected, for a choice of the platform and encoder, the probes' answers,
\* the slider's position, the lines the processes print and the cpu count
InitWith(platEncs, durs, crfs, feeds, cpus) ==
  /\ \E pe \in platEncs : platform = pe[1] /\ encoder = pe[2]
  /\ duration \in durs
  /\ crf_value \in crfs
  /\ feed \in feeds
  /\ cpu_count \in cpus
  /\ listing = [status |-> "ok", names |-> {encoder} \ {"libx264"}]
  /\ label_encoder = gpu_type_to_string(encoder)
  /\ detectRuns = 2
  /\ verified = {encoder} \ {"libx264"}
  /\ detectEscaped = FALSE
  /\ Idle

\* ------------------------------------------------------- loading the module
\* one run of detect_gpu_encoder on behalf of a caller: its result, and the
\* history of the run
DetectRun(result) ==
  \E works \in SUBSET HardwareEncoders :
    /\ result = detect_gpu_encoder(platform, listing, works)
    /\ verified' = works
    /\ detectRuns' = detectRuns + 1
    /\ detectEscaped' = (detectEscaped \/ Surfaces(listing.status = "raised"))

\* encoder = detect_gpu_encoder()
LoadEncoder ==
  /\ encoder = "unset"
  /\ DetectRun(encoder')
  /\ UNCHANGED <<ledgerVars, platform, duration, crf_value, feed, cpu_count, listing, label_encoder,
                 batchVars, progressVars, jobVars, procVars, closeVars, signalled,
                 callVars, RUNNING_PROCS, removals, killEscaped, loopVars, uiVars>>

\* gpu_type_label = tk.Label(..., text="GPU Encoder Detected: " + gpu_type_to_string())
ShowLabel ==
  /\ encoder # "unset"
  /\ label_encoder = "unset"
  /\ \E gpu \in Encoders :
       /\ DetectRun(gpu)
       /\ label_encoder' = gpu_type_to_string(gpu)
  /\ UNCHANGED <<ledgerVars, envVars, batchVars, progressVars, jobVars, procVars, closeVars,
                 signalled, callVars, RUNNING_PROCS, removals, killEscaped, loopVars,
                 uiVars>>

\* the module being loaded, on any platform and with any listing
InitLoad ==
  /\ platform \in Platforms
  /\ listing \in Listings
  /\ encoder = "unset"
  /\ label_encoder = "unset"
  /\ detectRuns = 0
  /\ verified = {}
  /\ detectEscaped = FALSE
  /\ duration = [j \in Items |-> MaxDur]
  /\ crf_value = QualityMin
  /\ feed = QuietLines
  /\ cpu_count = MinCpus
  /\ Idle

NextLoad ==
  \/ LoadEncoder
  \/ ShowLabel

SpecLoad == InitLoad /\ [][NextLoad]_vars

\* ------------------------------------------------------- the batch thread
\* start_conversion: the main thread starts the batch thread
StartConversion ==
  /\ closepc = "open"
  /\ batch = "idle"
  /\ batch' = "started"
  /\ UNCHANGED <<ledgerVars, envVars, detectVars, signalled, loopVars, uiVars, nextFuture,
                 collected, errors, doneCount, progressVars, jobVars, procVars,
                 closeVars, callVars, RUNNING_PROCS, removals, killEscaped>>

\* total_duration = sum(get_video_duration(v) for v in selected_videos)
TotalDuration(d) == SumTo(d, NumItems)

\* convert_all_videos_parallel up to the end of the submit loop
BatchBegin ==
  /\ ~halted
  /\ batch = "started"
  /\ total_duration_sum' = TotalDuration(duration)
  /\ processed_duration_total' = 0
  /\ jpc' = [j \in Items |-> "queued"]
  /\ nextFuture' = 1
  /\ batch' = "collect"
  /\ bare' = Access(bare, "reset")
  /\ UNCHANGED <<ledgerVars, envVars, detectVars, signalled, loopVars, progress_label, collected,
                 errors, doneCount, success, last_reported, cmd, regressed, procVars,
                 closeVars, callVars, RUNNING_PROCS, removals, killEscaped>>

\* a result taken as soon as a worker has the job
FutureDoneEarly(j) == jpc[j] # "queued"

\* future.result() stops waiting: the job has returned or raised
FutureDone(j) == Finished(j)

\* the boxes posted so far once the result of item j's future is known
ErrorsAfter(errs, j, ok) == IF ok THEN errs ELSE Append(errs, j)

\* one turn of "for future in futures": future.result() returns, and a
\* failure is posted, or it re-raises the job's exception, which leaves the loop
BatchCollect ==
  /\ ~halted
  /\ batch = "collect"
  /\ nextFuture <= NumItems
  /\ FutureDone(nextFuture)
  /\ IF jpc[nextFuture] = "raised"
       THEN /\ batch' = "unwinding"
            /\ UNCHANGED <<collected, errors, nextFuture>>
       ELSE /\ collected' = collected \cup {nextFuture}
            /\ errors' = ErrorsAfter(errors, nextFuture, success[nextFuture])
            /\ nextFuture' = nextFuture + 1
            /\ batch' = batch
  /\ UNCHANGED <<ledgerVars, envVars, detectVars, signalled, loopVars, uiVars, doneCount,
                 progressVars, jobVars, procVars, closeVars, callVars, RUNNING_PROCS,
                 removals, killEscaped>>

\* the "Done" boxes posted once the with block has ended without an exception
DoneAfter(n) == n + 1

\* the loop is over: the with block ends, the "Done" box is posted, finally runs
BatchDone ==
  /\ ~halted
  /\ batch = "collect"
  /\ nextFuture = NumItems + 1
  /\ doneCount' = DoneAfter(doneCount)
  /\ batch' = "ended"
  /\ progress_label' = 0
  /\ UNCHANGED <<ledgerVars, envVars, detectVars, signalled, loopVars, bare, nextFuture, collected,
                 errors, progressVars, jobVars, procVars, closeVars, callVars,
                 RUNNING_PROCS, removals, killEscaped>>

\* an exception is leaving the with block: the executor waits for every job,
\* then finally runs and the exception ends the batch thread
BatchUnwind ==
  /\ ~halted
  /\ batch = "unwinding"
  /\ \A j \in Items : Finished(j)
  /\ batch' = "crashed"
  /\ progress_label' = 0
  /\ UNCHANGED <<ledgerVars, envVars, detectVars, signalled, loopVars, bare, nextFuture, collected,
                 errors, doneCount, progressVars, jobVars, procVars, closeVars,
                 callVars, RUNNING_PROCS, removals, killEscaped>>

\* ---------------------------------------------------------------- the jobs
\* "if duration <= 0: return video_path, False" is not taken
Usable(d) == d > 0

\* the pool starts a job whatever the number of busy workers
WorkerAlwaysFree(busy, size) == TRUE

\* ThreadPoolExecutor(max_workers=MAX_WORKERS): a worker is free
WorkerFree(busy, size) == busy < size

\* a free pool worker takes the oldest queued job: the duration probe,
\* os.makedirs, the thumbnail and the command
JobStart(j) ==
  /\ ~halted
  /\ jpc[j] = "queued"
  /\ \A k \in Items : k < j => jpc[k] # "queued"
  /\ WorkerFree(Cardinality({k \in Items : Active(k)}), MAX_WORKERS)
  /\ \E mkdirOk \in BOOLEAN :
       IF Usable(duration[j]) /\ mkdirOk
         THEN /\ jpc' = [jpc EXCEPT ![j] = "built"]
              /\ cmd' = RateControl(encoder, crf_value)
              /\ success' = success
         ELSE /\ jpc' = [jpc EXCEPT ![j] = "returned"]
              /\ success' = [success EXCEPT ![j] = FALSE]
              /\ cmd' = cmd
  /\ UNCHANGED <<ledgerVars, envVars, detectVars, signalled, loopVars, uiVars, batchVars,
                 progressVars, last_reported, regressed, procVars, closeVars, callVars,
                 RUNNING_PROCS, removals, killEscaped>>

\* subprocess.Popen: the process starts, or Popen raises
JobSpawn(j) ==
  /\ ~halted
  /\ jpc[j] = "built"
  /\ \E spawnOk \in BOOLEAN :
       IF spawnOk
         THEN /\ jpc' = [jpc EXCEPT ![j] = "spawned"]
              /\ proc' = [proc EXCEPT ![j] = "running"]
         ELSE /\ jpc' = [jpc EXCEPT ![j] = "raised"]
              /\ proc' = proc
  /\ UNCHANGED <<ledgerVars, envVars, detectVars, signalled, loopVars, uiVars, batchVars,
                 progressVars, success, last_reported, cmd, regressed, returncode,
                 closeVars, callVars, RUNNING_PROCS, removals, killEscaped>>

\* RUNNING_PROCS.add(process); last_reported = 0
JobRegister(j) ==
  /\ ~halted
  /\ jpc[j] = "spawned"
  /\ RUNNING_PROCS' = RUNNING_PROCS \cup {j}
  /\ last_reported' = [last_reported EXCEPT ![j] = 0]
  /\ jpc' = [jpc EXCEPT ![j] = "reading"]
  /\ bare' = Access(bare, "add")
  /\ UNCHANGED <<ledgerVars, envVars, detectVars, signalled, loopVars, progress_label, batchVars,
                 progressVars, success, cmd, regressed, procVars, closeVars, callVars,
                 removals, killEscaped>>

\* one turn of "for line in process.stdout" with a line read
\* overall_percent, as a whole number of percent
Percent(total, sum) ==
  IF sum = 0 THEN 0
  ELSE IF sum > 0 THEN (total * 100) \div sum
  ELSE ((0 - total) * 100) \div (0 - sum)

\* the loop body from '"out_time_ms=" in line' on, for job j and line l: a
\* line without the key or without digits is skipped, a sample is applied to
\* last_reported and, holding lock, to the total and the progress display
LoopBody(j, l) ==
  IF l.key = "out_time_ms" /\ isdigit(l.value)
    THEN /\ last_reported' = [last_reported EXCEPT ![j] = ProcessedSeconds(l.value)]
         /\ processed_duration_total' =
              Aggregate(total_duration_sum, processed_duration_total,
                        Increment(ProcessedSeconds(l.value), last_reported[j]))
         /\ regressed' = (regressed \/ ProcessedSeconds(l.value) < last_reported[j])
         /\ progress_label' = Percent(processed_duration_total', total_duration_sum)
         /\ bare' = Access(bare, "update")
    ELSE UNCHANGED <<last_reported, processed_duration_total, regressed, progress_label,
                     bare>>

\* the flag is never looked at
BreaksNever(flag) == FALSE

\* "if SHUTTING_DOWN: break"
Breaks(flag) == flag

\* one turn of "for line in process.stdout", taken as one step: the next line
\* arrives, SHUTTING_DOWN is read, and the loop ends or the body runs
Turn(j) ==
  /\ ~halted
  /\ jpc[j] = "reading"
  /\ \E l \in feed :
       IF Breaks(SHUTTING_DOWN)
         THEN /\ jpc' = [jpc EXCEPT ![j] = "waiting"]
              /\ UNCHANGED <<last_reported, processed_duration_total, regressed,
                             uiVars>>
         ELSE /\ LoopBody(j, l)
              /\ jpc' = jpc
  /\ UNCHANGED <<envVars, detectVars, signalled, loopVars, batchVars,
                 total_duration_sum, success, cmd, procVars, closeVars, callVars,
                 RUNNING_PROCS, removals, killEscaped>>

\* the turn, no ledger kept
JobReadLine(j) == Turn(j) /\ UNCHANGED ledgerVars

\* the ledger of job j over a step of its loop: what the step added to
\* processed_duration_total[0] under "with lock", and the largest
\* processed_seconds so far (last_reported is the one just computed)
Audit(j) ==
  /\ contributed' =
       [contributed EXCEPT ![j] = @ + processed_duration_total' - processed_duration_total]
  /\ top_reported' = [top_reported EXCEPT ![j] = Max(@, last_reported'[j])]

\* the turn, the ledger kept
JobReadLineAudited(j) == Turn(j) /\ Audit(j)

\* The same turn, statement by statement.  First the head of the loop: the
\* next line arrives and SHUTTING_DOWN is read; the loop ends, or the line is
\* handed to the body
JobNextLine(j) ==
  /\ ~halted
  /\ jpc[j] = "reading"
  /\ \E l \in feed :
       IF Breaks(SHUTTING_DOWN)
         THEN /\ jpc' = [jpc EXCEPT ![j] = "waiting"]
              /\ held' = held
         ELSE /\ jpc' = [jpc EXCEPT ![j] = "body"]
              /\ held' = [held EXCEPT ![j] = l]
  /\ UNCHANGED <<ledgerVars, envVars, detectVars, signalled, lateSamples, uiVars, batchVars,
                 progressVars, success, last_reported, cmd, regressed, procVars,
                 closeVars, callVars, RUNNING_PROCS, removals, killEscaped>>

\* then the body, on the line it was handed; SHUTTING_DOWN is not read again
JobLoopBody(j) ==
  /\ ~halted
  /\ jpc[j] = "body"
  /\ LoopBody(j, held[j])
  /\ lateSamples' =
       [lateSamples EXCEPT ![j] =
          IF SHUTTING_DOWN /\ held[j].key = "out_time_ms" /\ isdigit(held[j].value)
            THEN @ + 1 ELSE @]
  /\ jpc' = [jpc EXCEPT ![j] = "next"]
  /\ UNCHANGED <<ledgerVars, envVars, detectVars, signalled, held, batchVars, total_duration_sum,
                 success, cmd, procVars, closeVars, callVars, RUNNING_PROCS, removals,
                 killEscaped>>

\* then control is back at the head of the loop ("continue", or the body's end)
JobLoopBack(j) ==
  /\ ~halted
  /\ jpc[j] = "next"
  /\ jpc' = [jpc EXCEPT ![j] = "reading"]
  /\ held' = [held EXCEPT ![j] = NoLine]
  /\ UNCHANGED <<ledgerVars, envVars, detectVars, signalled, lateSamples, uiVars, batchVars,
                 progressVars, success, last_reported, cmd, regressed, procVars,
                 closeVars, callVars, RUNNING_PROCS, removals, killEscaped>>

\* the process has exited and its output is used up: the loop ends
JobEOF(j) ==
  /\ ~halted
  /\ jpc[j] = "reading"
  /\ proc[j] = "exited"
  /\ jpc' = [jpc EXCEPT ![j] = "waiting"]
  /\ UNCHANGED <<ledgerVars, envVars, detectVars, signalled, loopVars, uiVars, batchVars,
                 progressVars, success, last_reported, cmd, regressed, procVars,
                 closeVars, callVars, RUNNING_PROCS, removals, killEscaped>>

\* the exit code is not looked at
SucceededAnyCode(code) == code >= 0

\* process.returncode == 0
Succeeded(code) == code = 0

\* the handle stays in the registry
DiscardNothing(registry, p) == registry

\* RUNNING_PROCS.discard(process)
Discard(registry, p) == registry \ {p}

\* process.wait() returns; RUNNING_PROCS.discard(process); return
JobFinish(j) ==
  /\ ~halted
  /\ jpc[j] = "waiting"
  /\ proc[j] = "exited"
  /\ RUNNING_PROCS' = Discard(RUNNING_PROCS, j)
  /\ removals' = [removals EXCEPT ![j] = @ + Cardinality(RUNNING_PROCS \ RUNNING_PROCS')]
  /\ success' = [success EXCEPT ![j] = Succeeded(returncode[j])]
  /\ jpc' = [jpc EXCEPT ![j] = "returned"]
  /\ bare' = Access(bare, "discard")
  /\ UNCHANGED <<ledgerVars, envVars, detectVars, signalled, loopVars, progress_label, batchVars,
                 progressVars, last_reported, cmd, regressed, procVars, closeVars,
                 callVars, killEscaped>>

\* ------------------------------------------------------------ the processes
\* p.poll() is None
Alive(st) == st \in {"running", "stopping", "ignoring"}

\* an ffmpeg process exits: by itself with code 0 or 1, or, once it has
\* begun to stop on a signal, with a non-zero code
ProcExit(j) ==
  /\ ~halted
  /\ Alive(proc[j])
  /\ \E code \in {0, 1} :
       /\ proc[j] = "stopping" => code # 0
       /\ returncode' = [returncode EXCEPT ![j] = code]
  /\ proc' = [proc EXCEPT ![j] = "exited"]
  /\ UNCHANGED <<ledgerVars, envVars, detectVars, signalled, loopVars, uiVars, batchVars,
                 progressVars, jobVars, closeVars, callVars, RUNNING_PROCS, removals,
                 killEscaped>>

\* --------------------------------------------------------- _kill_process_tree
\* what SIGTERM does to a process: nothing when the process ignores it,
\* otherwise the process begins to stop
Sigterm(st, ignores) ==
  IF st = "running" THEN (IF ignores THEN "ignoring" ELSE "stopping") ELSE st

\* what TerminateProcess does to a process on Windows (p.terminate and
\* p.kill are the same call there): the process is gone
TerminateProcess(st) == "exited"

\* no try around the calls
PropagatesUncaught(raised) == raised

\* try: ... except Exception: pass -- whether an exception raised inside goes on
Propagates(raised) == FALSE

\* the state _kill_process_tree leaves a process in
kill_process_tree(plat, st, ignores) ==
  IF ~Alive(st) THEN st
  ELSE IF plat = "win"
    THEN TerminateProcess(TerminateProcess(st))
    ELSE Sigterm(Sigterm(st, ignores), ignores)

\* one call _kill_process_tree(p).  ignores: the process ignores SIGTERM;
\* raised: one of the calls inside raises (killpg on a group that is gone,
\* wait(timeout=1.0) running out, kill on a process that is gone)
KillCall(p) ==
  \E ignores \in BOOLEAN, raised \in BOOLEAN :
    /\ proc' = [proc EXCEPT ![p] = kill_process_tree(platform, proc[p], ignores)]
    /\ returncode' = IF proc'[p] = "exited" /\ proc[p] # "exited"
                       THEN [returncode EXCEPT ![p] = 1]
                       ELSE returncode
    /\ killEscaped' = (killEscaped \/ (Alive(proc[p]) /\ Propagates(raised)))

\* ------------------------------------------------------------------ on_close
\* SHUTTING_DOWN = True; disable_controls()
OnCloseFlag ==
  /\ closepc = "open"
  /\ SHUTTING_DOWN' = TRUE
  /\ closepc' = "flagged"
  /\ UNCHANGED <<ledgerVars, envVars, detectVars, signalled, loopVars, uiVars, batchVars,
                 progressVars, jobVars, procVars, procs, callVars, RUNNING_PROCS,
                 removals, killEscaped>>

\* procs = list(RUNNING_PROCS)
OnCloseSnapshot ==
  /\ closepc = "flagged"
  /\ procs' = RUNNING_PROCS
  /\ closepc' = "killing"
  /\ bare' = Access(bare, "snapshot")
  /\ UNCHANGED <<ledgerVars, envVars, detectVars, signalled, loopVars, progress_label, batchVars,
                 progressVars, jobVars, procVars, SHUTTING_DOWN, callVars,
                 RUNNING_PROCS, removals, killEscaped>>

\* one turn of "for p in procs: _kill_process_tree(p)"
OnCloseKill(p) ==
  /\ closepc = "killing"
  /\ p \in procs
  /\ KillCall(p)
  /\ procs' = procs \ {p}
  /\ signalled' = signalled \cup {p}
  /\ UNCHANGED <<ledgerVars, envVars, detectVars, loopVars, uiVars, batchVars, progressVars,
                 jobVars, SHUTTING_DOWN, closepc, callVars, RUNNING_PROCS, removals>>

\* the bounded waits, root.quit(), root.destroy(), os._exit(0)
OnCloseExit ==
  /\ closepc = "killing"
  /\ procs = {}
  /\ closepc' = "exited"
  /\ UNCHANGED <<ledgerVars, envVars, detectVars, signalled, loopVars, uiVars, batchVars,
                 progressVars, jobVars, procVars, SHUTTING_DOWN, procs, callVars,
                 RUNNING_PROCS, removals, killEscaped>>

\* ---------------------------------------------------------------- the program
\* the whole program: any platform, any probe answers, any progress lines
Init ==
  InitWith({<<"win", "libx264">>, <<"linux", "libx264">>}, [Items -> DurSet],
           {QualityMin}, {Lines}, {MinCpus})

Next ==
  \/ StartConversion
  \/ BatchBegin
  \/ BatchCollect
  \/ BatchDone
  \/ BatchUnwind
  \/ \E j \in Items : JobStart(j)
  \/ \E j \in Items : JobSpawn(j)
  \/ \E j \in Items : JobRegister(j)
  \/ \E j \in Items : JobReadLine(j)
  \/ \E j \in Items : JobEOF(j)
  \/ \E j \in Items : JobFinish(j)
  \/ \E j \in Items : ProcExit(j)
  \/ OnCloseFlag
  \/ OnCloseSnapshot
  \/ \E p \in Items : OnCloseKill(p)
  \/ OnCloseExit

Spec == Init /\ [][Next]_vars

\* the program with processes that report no processed time and files that
\* are unusable (duration 0) or usable: scheduling, outcomes and shutdown
InitSched ==
  InitWith({<<"win", "libx264">>, <<"linux", "libx264">>}, [Items -> {0, MaxDur}],
           {QualityMin}, {QuietLines}, {MinCpus})

SpecSched == InitSched /\ [][Next]_vars

\* ------------------------------------------------ _kill_process_tree, called freely
\* the handle the calls are made on: the first item's
Handle == CHOOSE j \in Items : \A k \in Items : j <= k

\* a call _kill_process_tree(p) on an existing handle, by any caller, at any time
TerminateCall(p) ==
  /\ proc[p] # "none"
  /\ killCalls[p] < MaxCalls
  /\ KillCall(p)
  /\ killCalls' = [killCalls EXCEPT ![p] = @ + 1]
  /\ deadCalls' = [deadCalls EXCEPT ![p] = IF Alive(proc[p]) THEN @ ELSE @ + 1]
  /\ UNCHANGED <<ledgerVars, envVars, detectVars, signalled, loopVars, uiVars, batchVars,
                 progressVars, jobVars, closeVars, RUNNING_PROCS, removals>>

\* one job with a usable file, from its submission to its return, and calls
\* of _kill_process_tree on its handle
InitTerm ==
  InitWith({<<p, "libx264">> : p \in Platforms}, {[j \in Items |-> MaxDur]},
           {QualityMin}, {QuietLines}, {MinCpus})

NextTerm ==
  \/ StartConversion
  \/ BatchBegin
  \/ JobStart(Handle)
  \/ JobSpawn(Handle)
  \/ JobRegister(Handle)
  \/ JobReadLine(Handle)
  \/ JobEOF(Handle)
  \/ JobFinish(Handle)
  \/ ProcExit(Handle)
  \/ TerminateCall(Handle)

SpecTerm == InitTerm /\ [][NextTerm]_vars

\* ------------------------------------------------------- building the commands
\* every platform with every encoder detection can return on it, and every
\* position of the quality slider; the jobs run up to their commands
InitQuality ==
  InitWith(UNION {{<<p, e>> : e \in EncodersOf(p)} : p \in Platforms},
           {[j \in Items |-> MaxDur]}, Qualities, {QuietLines}, {MinCpus})

NextQuality ==
  \/ StartConversion
  \/ BatchBegin
  \/ \E j \in Items : JobStart(j)

SpecQuality == InitQuality /\ [][NextQuality]_vars

\* ------------------------------------------- the read loop, statement by statement
\* the program with one usable file, the first, whose process prints any
\* lines, the turns of the read loop taken statement by statement
InitLines ==
  InitWith({<<"linux", "libx264">>},
           {[j \in Items |-> IF j = Handle THEN MaxDur ELSE 0]},
           {QualityMin}, {Lines}, {MinCpus})

NextLines ==
  \/ StartConversion
  \/ BatchBegin
  \/ BatchCollect
  \/ BatchDone
  \/ BatchUnwind
  \/ \E j \in Items : JobStart(j)
  \/ \E j \in Items : JobSpawn(j)
  \/ \E j \in Items : JobRegister(j)
  \/ \E j \in Items : JobNextLine(j)
  \/ \E j \in Items : JobLoopBody(j)
  \/ \E j \in Items : JobLoopBack(j)
  \/ \E j \in Items : JobEOF(j)
  \/ \E j \in Items : JobFinish(j)
  \/ \E j \in Items : ProcExit(j)
  \/ OnCloseFlag
  \/ OnCloseSnapshot
  \/ \E p \in Items : OnCloseKill(p)
  \/ OnCloseExit

SpecLines == InitLines /\ [][NextLines]_vars

\* ------------------------------------------------------------- the pool
\* a batch on a machine with few and with many cpus, every file usable, the
\* window left open
InitPool ==
  InitWith({<<"linux", "libx264">>}, {[j \in Items |-> MaxDur]}, {QualityMin},
           {QuietLines}, {MinCpus, MaxCpus})

NextPool ==
  \/ StartConversion
  \/ BatchBegin
  \/ BatchCollect
  \/ BatchDone
  \/ BatchUnwind
  \/ \E j \in Items : JobStart(j)
  \/ \E j \in Items : JobSpawn(j)
  \/ \E j \in Items : JobRegister(j)
  \/ \E j \in Items : JobReadLine(j)
  \/ \E j \in Items : JobEOF(j)
  \/ \E j \in Items : JobFinish(j)
  \/ \E j \in Items : ProcExit(j)

SpecPool == InitPool /\ [][NextPool]_vars

\* ------------------------------------------------------------ the ledger
\* a batch of usable files whose processes print any lines, the window left
\* open, the ledger of every job's contribution kept
InitLedger ==
  InitWith({<<"linux", "libx264">>}, {[j \in Items |-> MaxDur]}, {QualityMin},
           {Lines}, {MinCpus})

NextLedger ==
  \/ StartConversion
  \/ BatchBegin
  \/ BatchCollect
  \/ BatchDone
  \/ BatchUnwind
  \/ \E j \in Items : JobStart(j)
  \/ \E j \in Items : JobSpawn(j)
  \/ \E j \in Items : JobRegister(j)
  \/ \E j \in Items : JobReadLineAudited(j)
  \/ \E j \in Items : JobEOF(j)
  \/ \E j \in Items : JobFinish(j)
  \/ \E j \in Items : ProcExit(j)

SpecLedger == InitLedger /\ [][NextLedger]_vars

\* ---------------------------------------------------------- the progress
\* a batch whose usable files are as many as the pool has workers, or only
\* the first with the durations of the others negative, the processes
\* printing any lines, the window left open
InitProgress ==
  InitWith({<<"linux", "libx264">>},
           {[j \in Items |-> IF j <= PoolSize(MinCpus) THEN MaxDur ELSE 0],
            [j \in Items |-> IF j = Handle THEN MaxDur ELSE 0 - 1]},
           {QualityMin}, {Lines}, {MinCpus})

NextProgress ==
  \/ StartConversion
  \/ BatchBegin
  \/ BatchCollect
  \/ BatchDone
  \/ BatchUnwind
  \/ \E j \in Items : JobStart(j)
  \/ \E j \in Items : JobSpawn(j)
  \/ \E j \in Items : JobRegister(j)
  \/ \E j \in Items : JobReadLine(j)
  \/ \E j \in Items : JobEOF(j)
  \/ \E j \in Items : JobFinish(j)
  \/ \E j \in Items : ProcExit(j)

SpecProgress == InitProgress /\ [][NextProgress]_vars

\* ------------------------------------------------- one job and the shutdown
\* The first file's job and on_close, with what the scheduling gives: a pool
\* worker takes the job and runs its statements, a process that has exited
\* is seen to have exited, a process exits in the end (by itself or on a
\* signal), and on_close, once called, runs to its os._exit(0).  Reading one
\* more line and the user's closing the window are not forced.
NextLive ==
  \/ StartConversion
  \/ BatchBegin
  \/ JobStart(Handle)
  \/ JobSpawn(Handle)
  \/ JobRegister(Handle)
  \/ JobReadLine(Handle)
  \/ JobEOF(Handle)
  \/ JobFinish(Handle)
  \/ ProcExit(Handle)
  \/ OnCloseFlag
  \/ OnCloseSnapshot
  \/ \E p \in Items : OnCloseKill(p)
  \/ OnCloseExit

SpecLive ==
  /\ InitTerm
  /\ [][NextLive]_vars
  /\ WF_vars(StartConversion)
  /\ WF_vars(BatchBegin)
  /\ WF_vars(JobStart(Handle))
  /\ WF_vars(JobSpawn(Handle))
  /\ WF_vars(JobRegister(Handle))
  /\ WF_vars(JobEOF(Handle))
  /\ WF_vars(JobFinish(Handle))
  /\ WF_vars(ProcExit(Handle))
  /\ WF_vars(OnCloseSnapshot)
  /\ WF_vars(\E p \in Items : OnCloseKill(p))
  /\ WF_vars(OnCloseExit)

\* ================================================================== claims
\* the batch thread has computed the batch's totals and submitted the jobs
InBatch == batch \in {"collect", "unwinding", "ended", "crashed"}
\* the batch thread has left convert_all_videos_parallel
BatchOver == batch \in {"ended", "crashed"}
\* the items a failure box was posted for
Reported == {errors[i] : i \in 1..Len(errors)}
\* the same after the step
ReportedNext == {errors'[i] : i \in 1..Len(errors')}
\* item j's process has exited with code 0
ExitedZero(j) == proc[j] = "exited" /\ returncode[j] = 0
\* the sum of the durations of the usable items
UsableDuration(n) == SumTo([j \in Items |-> IF duration[j] > 0 THEN duration[j] ELSE 0], n)

\* C1: within one batch every step leaves the global processed total at or
\* above its previous value, and the total never exceeds totalDurationSum.
C1_MonotoneAndBounded ==
  [][InBatch => /\ processed_duration_total' >= processed_duration_total
                /\ processed_duration_total' <= total_duration_sum']_vars

\* C1, C6 (what holds): when the sum of the probed durations is not negative,
\* the total lies between 0 and the sum, and it never decreases.
TotalBoundedWhenSumNonNegative ==
  (InBatch /\ total_duration_sum >= 0) =>
     (0 <= processed_duration_total /\ processed_duration_total <= total_duration_sum)

TotalMonotoneWhenSumNonNegative ==
  [][(InBatch /\ total_duration_sum >= 0) =>
        processed_duration_total' >= processed_duration_total]_vars

\* C2: whatever jobs end with a non-zero exit code, the batch thread collects
\* every job, an item is reported as failed exactly when its own process did
\* not exit with code 0, and the completion box is posted exactly once; exit
\* codes alone never end the batch early.
C2_PartialFailureIsolation ==
  /\ doneCount <= 1
  /\ \A j \in collected :
       /\ jpc[j] = "returned"
       /\ success[j] <=> ExitedZero(j)
       /\ (j \in Reported) <=> ~ExitedZero(j)
  /\ Len(errors) = Cardinality(Reported)
  /\ batch = "ended" => (doneCount = 1 /\ collected = Items)
  /\ batch \in {"unwinding", "crashed"} => \E j \in Items : jpc[j] = "raised"
  /\ (BatchOver /\ \A j \in Items : jpc[j] # "raised") => batch = "ended"

\* C2 (witness): the batch has ended with its one completion box, one job's
\* process exited non-zero and was reported, every other item succeeded.
C2_Witness ==
  /\ batch = "ended"
  /\ doneCount = 1
  /\ \E j \in Items :
       /\ proc[j] = "exited" /\ returncode[j] # 0
       /\ Reported = {j}
       /\ \A k \in Items \ {j} : success[k] /\ ExitedZero(k)

\* C3: a job that fails on its output directory or on its spawn fails alone:
\* when the batch thread is through, every job that returned has been
\* collected and the completion box has been posted.
C3_FailureNeverAbortsBatch ==
  BatchOver => /\ doneCount = 1
               /\ batch = "ended"
               /\ \A j \in Items : jpc[j] = "returned" => j \in collected

C5_UnusableItemExcluded ==
  /\ InBatch => total_duration_sum = UsableDuration(NumItems)
  /\ \A j \in Items : duration[j] <= 0 =>
       /\ proc[j] = "none"
       /\ j \in collected => j \in Reported

\* C5 (what holds): an item whose probe answers 0 or less never gets a
\* process and is reported as failed when collected.
UnusableItemNeverSpawned ==
  \A j \in Items : duration[j] <= 0 =>
    /\ proc[j] = "none"
    /\ ~success[j]
    /\ j \in collected => j \in Reported

\* C6: when no job's reported values ever decrease, the total of a batch that
\* has ended is min(totalDurationSum, sum of the jobs' last reported values).
C6_FinalTotal ==
  (batch = "ended" /\ ~regressed) =>
     processed_duration_total =
       Min(total_duration_sum, SumTo(last_reported, NumItems))

\* C6 (what holds): the same, for a sum of probed durations that is not negative.
FinalTotalWhenSumNonNegative ==
  (batch = "ended" /\ ~regressed /\ total_duration_sum >= 0) =>
     processed_duration_total =
       Min(total_duration_sum, SumTo(last_reported, NumItems))

\* C7: however often _kill_process_tree is called on a handle, also on one
\* whose process has exited, no exception leaves it, it takes no handle out
\* of the registry, and the handle leaves the registry exactly once, when its
\* job returns.
C7_TerminateIdempotent ==
  /\ ~killEscaped
  /\ \A j \in Items :
       /\ removals[j] <= 1
       /\ j \in RUNNING_PROCS => removals[j] = 0
       /\ (jpc[j] = "returned" /\ proc[j] # "none") =>
            (removals[j] = 1 /\ j \notin RUNNING_PROCS)
       /\ (jpc[j] \in {"reading", "waiting"}) => j \in RUNNING_PROCS

\* C7 (witness): two calls on one handle, one of them after its process had
\* exited, and the job has returned with the handle removed once.
C7_Witness ==
  /\ killCalls[Handle] >= 2
  /\ deadCalls[Handle] >= 1
  /\ killCalls[Handle] > deadCalls[Handle]
  /\ jpc[Handle] = "returned"
  /\ removals[Handle] = 1

\* C8: after _kill_process_tree has been called on it, a process that ignores
\* the graceful stop signal is dead.
C8_DeadAfterTerminate ==
  \A j \in Items : killCalls[j] > 0 => proc[j] # "ignoring"

\* C8 (what holds): on Windows a process is dead after the call.
DeadAfterTerminateOnWindows ==
  \A j \in Items : (platform = "win" /\ killCalls[j] > 0) => proc[j] = "exited"

\* the range the claim gives for a rate-control option (for -crf, which the
\* code does not clamp, libx264's range)
LegalRange(opt) ==
  IF opt = "-q:v" THEN 1..100
  ELSE IF opt = "-global_quality" THEN 1..51
  ELSE 0..51

C10_NoStartAfterShutdown ==
  [][SHUTTING_DOWN =>
       \A j \in Items : /\ jpc[j] = "queued" => jpc'[j] = "queued"
                        /\ proc[j] = "none" => proc'[j] = "none"]_vars

\* C11: after SHUTTING_DOWN is set a job applies at most one more sample to
\* the total, the one whose line was handed to the loop body before the flag
\* was set: with the flag set no line is handed to the body any more, and
\* only a job that is in the body can apply a sample.
C11_StopsWithinOneLine ==
  /\ [](\A j \in Items : lateSamples[j] <= 1)
  /\ [][\A j \in Items :
         (SHUTTING_DOWN /\ jpc[j] # "body") =>
            /\ jpc'[j] # "body"
            /\ lateSamples'[j] = lateSamples[j]
            /\ last_reported'[j] = last_reported[j]]_vars

\* C11 (witness): a job applied one sample after the flag was set and has
\* left the loop, while its process is still running.
C11_Witness ==
  \E j \in Items :
    /\ lateSamples[j] = 1
    /\ jpc[j] = "waiting"
    /\ proc[j] = "running"

\* C12: once SHUTTING_DOWN is set no "Failed: ..." box is posted for a job
\* whose process on_close has called _kill_process_tree on.
C12_NoErrorAfterShutdown ==
  [][\A j \in Items :
       (SHUTTING_DOWN /\ j \in signalled /\ j \notin Reported) => j \notin ReportedNext]_vars

\* C12 (what holds): a job whose process on_close has signalled and that
\* exits on the signal returns False.
KilledJobFails ==
  [][\A j \in Items :
       (proc[j] = "stopping" /\ jpc'[j] = "returned") => ~success'[j]]_vars

\* the jobs whose ffmpeg process is alive
LiveProcs == {j \in Items : Alive(proc[j])}

\* C13: the pool size is at least 2, at most that many jobs are run by
\* workers and at most that many ffmpeg processes are alive, and every live
\* process belongs to a job a worker is running (one process per worker).
C13_PoolBound ==
  /\ MAX_WORKERS >= 2
  /\ MAX_WORKERS = PoolSize(cpu_count)
  /\ Cardinality({j \in Items : Active(j)}) <= MAX_WORKERS
  /\ Cardinality(LiveProcs) <= MAX_WORKERS
  /\ \A j \in LiveProcs : Active(j)

\* C13 (witness): as many live processes as the pool has workers, and a job
\* still queued behind them.
C13_Witness ==
  /\ Cardinality(LiveProcs) = MAX_WORKERS
  /\ \E j \in Items : jpc[j] = "queued"

\* C14: detection runs at most once, and the label shown names the encoder
\* the transcoding commands use.
C14_DetectionMemoized ==
  /\ detectRuns <= 1
  /\ label_encoder # "unset" => label_encoder = gpu_type_to_string(encoder)

\* what the last run of detection returned, as its label
LastDetected ==
  IF label_encoder # "unset" THEN label_encoder ELSE gpu_type_to_string(encoder)

\* the platform's candidates that the listing names and whose test encode
\* passed in the last run, as positions in the preference order
VerifiedAt ==
  {i \in 1..Len(Preference(platform)) :
     /\ listing.status = "ok"
     /\ Preference(platform)[i] \in listing.names
     /\ Preference(platform)[i] \in verified}

\* C15: a run of detection returns the first candidate, in the platform's
\* preference order, that the listing names and whose test encode passes; it
\* returns libx264 when the listing call fails or raises or no candidate
\* passes; no exception leaves it.
C15_DetectFirstVerified ==
  detectRuns > 0 =>
    /\ ~detectEscaped
    /\ VerifiedAt = {} => LastDetected = gpu_type_to_string("libx264")
    /\ \A i \in VerifiedAt :
         (\A k \in VerifiedAt : i <= k) =>
            LastDetected = gpu_type_to_string(Preference(platform)[i])

\* C15 (witness): on Windows the listing names NVENC and Quick Sync, the
\* NVENC test encode fails and the Quick Sync one passes: Quick Sync is chosen.
C15_Witness ==
  /\ platform = "win"
  /\ detectRuns = 1
  /\ {"h264_nvenc", "h264_qsv"} \subseteq listing.names
  /\ "h264_nvenc" \notin verified
  /\ "h264_qsv" \in verified
  /\ encoder = "h264_qsv"

\* C16: once the batch thread is through, the completion box has been posted
\* exactly once and the processed total is back at 0.
C16_CompletionThenReset ==
  batch = "ended" => (doneCount = 1 /\ processed_duration_total = 0)

\* C16 (what holds): once the batch thread is through after its completion
\* box, the box has been posted exactly once and the progress display is
\* back at 0.
CompletionThenDisplayReset ==
  batch = "ended" => (doneCount = 1 /\ progress_label = 0)

\* the steps of a job: taken from the queue, command built, process spawned,
\* handle registered, loop left, returned; or returned without a process; or
\* ended by the exception of Popen
Lifecycle ==
  {<<"none", "queued">>, <<"queued", "built">>, <<"queued", "returned">>,
   <<"built", "spawned">>, <<"built", "raised">>, <<"spawned", "reading">>,
   <<"reading", "body">>, <<"body", "next">>, <<"next", "reading">>,
   <<"reading", "waiting">>, <<"waiting", "returned">>}

\* C17 (what holds): a job takes the steps of its lifecycle only, a job that
\* has ended stays as it is, and a job spawns at most one process.
JobStateMachine ==
  [][\A j \in Items :
       /\ jpc'[j] # jpc[j] => <<jpc[j], jpc'[j]>> \in Lifecycle
       /\ Finished(j) => (jpc'[j] = jpc[j] /\ success'[j] = success[j])
       /\ (proc'[j] = "running" /\ proc[j] # "running") =>
             (proc[j] = "none" /\ jpc[j] = "built")]_vars

\* C17: every job whose process was spawned returns in the end, with the
\* outcome True or False, also when the window is closed while it runs.
C17_RunningResolves ==
  \A j \in Items : (proc[j] = "running") ~> (jpc[j] = "returned")

\* C17 (what holds): every job whose process was spawned returns in the end,
\* unless the window is closed before.
RunningResolvesWhileOpen ==
  \A j \in Items : (proc[j] = "running") ~> (jpc[j] = "returned" \/ closepc # "open")

\* the jobs in their read loop or at process.wait()
InLoop == {j \in Items : jpc[j] \in {"reading", "body", "next", "waiting"}}

C19_EveryAccessLocked ==
  \A site \in bare : site # "update" /\ Structure(site) # "registry"

\* C19 (what holds): a job's update of the processed total runs with lock held.
UpdateOfTotalLocked ==
  "update" \notin bare

\* an out_time_ms line whose value is N/A, empty or signed
NonNumeric(l) == l.key = "out_time_ms" /\ l.value[1] \in {"N/A", "empty", "signed"}

\* C20: when the loop body has run on an out_time_ms line whose value is
\* N/A, empty or signed, the processed total, the job's last_reported and the
\* progress display are as before, the job has not ended and its process is
\* untouched; the job then goes back to the head of the loop for the next line.
C20_NonNumericIgnored ==
  [][\A j \in Items :
       /\ (jpc[j] = "body" /\ NonNumeric(held[j]) /\ jpc'[j] # "body") =>
            /\ jpc'[j] = "next"
            /\ processed_duration_total' = processed_duration_total
            /\ last_reported'[j] = last_reported[j]
            /\ progress_label' = progress_label
            /\ success'[j] = success[j]
            /\ proc'[j] = proc[j]
       /\ (jpc[j] = "next" /\ jpc'[j] # "next") => jpc'[j] = "reading"]_vars

\* C20 (witness): a job that had reported one second has run the loop body on
\* a line "out_time_ms=N/A"; the total, its last_reported and the display
\* still show the second.
C20_Witness ==
  \E j \in Items :
    /\ jpc[j] = "next"
    /\ held[j].key = "out_time_ms"
    /\ held[j].value[1] = "N/A"
    /\ last_reported[j] = 1
    /\ processed_duration_total = 1
    /\ progress_label = 100

\* C21: when on_close has reached os._exit(0), every ffmpeg process a job
\* has spawned has exited or has had _kill_process_tree called on its handle.
C21_NoProcessLeftUnsignalled ==
  halted => \A j \in Items :
              proc[j] # "none" => (proc[j] = "exited" \/ j \in signalled)

\* C21 (what holds): when on_close has reached os._exit(0), every handle of
\* its snapshot has been given to _kill_process_tree, and every handle given
\* to it belongs to a process that was spawned.
SnapshotAllSignalled ==
  halted => (procs = {} /\ \A j \in signalled : proc[j] # "none")

\* the batch's jobs are at work: the batch thread is in the "with" block of
\* convert_all_videos_parallel
AtWork == batch \in {"collect", "unwinding"}

\* C22: the percents posted while the batch's jobs are at work never go down
\* from one posting to the next, whichever jobs post them, and every percent
\* posted lies in 0..100.
C22_PercentNonDecreasing ==
  /\ [](progress_label \in 0..100)
  /\ [][(AtWork /\ AtWork') => progress_label' >= progress_label]_vars

\* C22 (witness): two jobs have posted, the percent has gone up from job to
\* job and has reached 100 with the jobs still at work.
C22_Witness ==
  /\ AtWork
  /\ progress_label = 100
  /\ \E i, j \in Items : /\ i # j
                         /\ last_reported[i] > 0
                         /\ last_reported[j] > 0
                         /\ jpc[i] = "reading"
                         /\ jpc[j] = "reading"

\* C23: what a job's updates have added to processed_duration_total[0] is
\* never more than the largest processed_seconds the job has computed.
C23_NoDoubleCounting ==
  \A j \in Items : contributed[j] <= top_reported[j]

\* C23 (what holds): as long as no job's counter has dropped, every job has
\* added at most its last, and largest, processed_seconds to the total, and
\* the total is never more than the sum of what the jobs have added.
NoDoubleCountingWithoutDrop ==
  /\ ~regressed =>
       \A j \in Items : /\ contributed[j] <= top_reported[j]
                        /\ top_reported[j] = last_reported[j]
  /\ processed_duration_total = SumTo(contributed, NumItems)

====
